---- MODULE Spec2Model ----
(***************************************************************************)
(* Model of verification/verify_frontend.py: run() drives a headless       *)
(* browser against index.html, waits for the board, takes a screenshot and *)
(* checks the classes of cell (0,0) and of cell (rows-1, cols-1).          *)
(*                                                                         *)
(* Text is modelled as a sequence of pieces.  The value of an input and a  *)
(* data-row / data-col attribute is a sequence of one-character strings.   *)
(* A class attribute is a sequence of lexical pieces (" " is the           *)
(* separator); the attribute's text is the concatenation of the pieces,    *)
(* and the pieces are chosen so that the text "player1-base" occurs in it  *)
(* exactly where the piece "player1-base" does.                            *)
(***************************************************************************)
EXTENDS Integers, Sequences, FiniteSets

\* Largest number of rows and of columns of a rendered board.
MaxDim == 10

\* A name that is not bound yet / a value that is absent, and a bound one.
Unbound == <<>>
Bound(x) == <<x>>
Val(o) == o[1]

---------------------------------------------------------------------------
\* Text helpers

Digits == <<"0", "1", "2", "3", "4", "5", "6", "7", "8", "9">>

IsDigit(ch) == \E i \in 1..10 : Digits[i] = ch

DigitVal(ch) == (CHOOSE i \in 1..10 : Digits[i] = ch) - 1

IsSpace(ch) == ch \in {" ", "\t", "\n"}

RECURSIVE StrNat(_)
\* The decimal digits of a natural number.
StrNat(n) == IF n < 10 THEN <<Digits[n + 1]>>
             ELSE StrNat(n \div 10) \o <<Digits[(n % 10) + 1]>>

\* Python's str(int), as the f-string of the selector and of the printed
\* line formats last_row and last_col.
Str(n) == IF n < 0 THEN <<"-">> \o StrNat(0 - n) ELSE StrNat(n)

RECURSIVE LStrip(_)
LStrip(s) == IF s # <<>> /\ IsSpace(Head(s)) THEN LStrip(Tail(s)) ELSE s

RECURSIVE RStrip(_)
RStrip(s) == IF s # <<>> /\ IsSpace(s[Len(s)])
             THEN RStrip(SubSeq(s, 1, Len(s) - 1)) ELSE s

RECURSIVE DigitsValue(_, _)
\* The value of a run of digits in which single underscores may separate
\* digits; -1 when the run is not of that form.  acc is the value so far.
DigitsValue(s, acc) ==
    IF s = <<>> THEN acc
    ELSE IF IsDigit(Head(s)) THEN DigitsValue(Tail(s), 10 * acc + DigitVal(Head(s)))
    ELSE IF Head(s) = "_" /\ Len(s) >= 2 /\ IsDigit(s[2]) THEN DigitsValue(Tail(s), acc)
    ELSE -1

\* Python's int(text) in base 10: surrounding whitespace is dropped, one
\* sign is allowed, then digits in which single underscores may separate
\* digits; anything else raises ValueError (ok = FALSE).
IntParse(s) ==
    LET t == RStrip(LStrip(s))
        neg == t # <<>> /\ Head(t) = "-"
        body == IF t # <<>> /\ Head(t) \in {"+", "-"} THEN Tail(t) ELSE t
        v == IF body # <<>> /\ IsDigit(Head(body)) THEN DigitsValue(body, 0) ELSE -1
    IN  IF v < 0 THEN [ok |-> FALSE, val |-> 0]
        ELSE [ok |-> TRUE, val |-> IF neg THEN 0 - v ELSE v]

\* Python's `t in s` on two strings: t occurs in s as a contiguous part.
Contains(s, t) ==
    \E i \in 1..(Len(s) - Len(t) + 1) : SubSeq(s, i, i + Len(t) - 1) = t

RECURSIVE Tokens(_)
\* The set of whitespace-separated tokens of a class attribute.
Tokens(s) ==
    IF s = <<>> THEN {}
    ELSE IF IsSpace(Head(s)) THEN Tokens(Tail(s))
    ELSE LET n == IF \E i \in 1..Len(s) : IsSpace(s[i])
                  THEN (CHOOSE i \in 1..Len(s) :
                           IsSpace(s[i]) /\ \A j \in 1..(i - 1) : ~IsSpace(s[j])) - 1
                  ELSE Len(s)
         IN  {SubSeq(s, 1, n)} \cup Tokens(SubSeq(s, n + 1, Len(s)))

Player1Base == <<"player1-base">>
Player2Base == <<"player2-base">>
CellToken == <<"cell">>

---------------------------------------------------------------------------
\* The page the application renders (the harness only observes it)

\* Class attributes a corner cell may carry.  Every element the selector
\* ".cell[...]" matches has the token "cell".
ClassLists ==
    { <<"cell">>,
      <<"cell", " ", "player1-base">>,
      <<"cell", " ", "player2-base">>,
      <<"cell", " ", "not-", "player1-base">>,
      <<"cell", " ", "player2-base", "-old">> }

\* A corner cell's class attribute, or Unbound when the page has no
\* ".cell" element at that position.
CornerClasses == {Unbound} \cup {Bound(c) : c \in ClassLists}

\* What a count input may show for a board dimension n.
InputValues(n) ==
    { Str(n), <<>>, Str(n) \o <<".", "5">> }

VARIABLES
    page,        \* the rendered document: board size, corner classes, inputs
    pc,          \* the statement run() executes next
    playwright,  \* the sync_playwright() context: "none", "started", "stopped"
    browser,     \* the browser: "none", "open", "closed"
    ready,       \* wait_for_selector(".cell") has returned
    shot,        \* the screenshot: "none", "written", "failed"
    class_0_0,   \* local class_0_0
    rows,        \* local rows
    cols,        \* local cols
    last_row,    \* local last_row
    last_col,    \* local last_col
    class_last,  \* local class_last
    reads,       \* the selectors get_attribute("class") was called on, in order
    out,         \* the lines printed, in order
    err,         \* the exception that ended run(), "none" when there is none
    exitStatus   \* the process's exit status once it has exited

vars == <<page, pc, playwright, browser, ready, shot, class_0_0, rows, cols,
          last_row, last_col, class_last, reads, out, err, exitStatus>>

locals == <<class_0_0, rows, cols, last_row, last_col, class_last>>

\* The positions of the ".cell" elements of the page: the grid, without a
\* corner whose element is absent.
CellPositions ==
    { rc \in (0..(page.rows - 1)) \X (0..(page.cols - 1)) :
        /\ (rc = <<0, 0>> => page.firstClass # Unbound)
        /\ (rc = <<page.rows - 1, page.cols - 1>> => page.lastClass # Unbound) }

\* The class attribute of the element at a position.
ClassOf(rc) ==
    IF rc = <<0, 0>> THEN Val(page.firstClass)
    ELSE IF rc = <<page.rows - 1, page.cols - 1>> THEN Val(page.lastClass)
    ELSE CellToken

\* page.locator('.cell[data-row="r"][data-col="c"]'): the positions of the
\* elements whose data-row and data-col attributes equal the selector's.
Locate(sel) ==
    ({ r \in 0..(page.rows - 1) : Str(r) = sel.row }
        \X { c \in 0..(page.cols - 1) : Str(c) = sel.col }) \cap CellPositions

Selector(r, c) == [row |-> r, col |-> c]

ClassLine(r, c, cls) == [kind |-> "class", row |-> r, col |-> c, classes |-> cls]

ResultLine(kind, subject) == [kind |-> kind, subject |-> subject]

\* `token in classes`, as lines 30 and 48 evaluate it.
CheckOutcome(token, classes) ==
    IF Contains(classes, token) THEN "SUCCESS" ELSE "FAILURE"

---------------------------------------------------------------------------
\* Initial states: any page, nothing run yet.  A board of 0 rows or 0
\* columns is a page on which no cell is ever rendered; on a 1x1 board the
\* first and the last cell are the same element.

Init ==
    /\ \E r \in 0..MaxDim, c \in 0..MaxDim, f \in CornerClasses, l \in CornerClasses :
         \E rv \in InputValues(r), cv \in InputValues(c) :
           /\ (r = 0 \/ c = 0) => (f = Unbound /\ l = Unbound)
           /\ (r = 1 /\ c = 1) => l = f
           /\ page = [rows |-> r, cols |-> c, firstClass |-> f, lastClass |-> l,
                      rowsValue |-> rv, colsValue |-> cv]
    /\ pc = "enter"
    /\ playwright = "none"
    /\ browser = "none"
    /\ ready = FALSE
    /\ shot = "none"
    /\ class_0_0 = Unbound
    /\ rows = Unbound
    /\ cols = Unbound
    /\ last_row = Unbound
    /\ last_col = Unbound
    /\ class_last = Unbound
    /\ reads = <<>>
    /\ out = <<>>
    /\ err = "none"
    /\ exitStatus = Unbound

---------------------------------------------------------------------------
\* The statements of run()

\* The exception classes the statements raise.  Playwright raises its
\* TimeoutError both from wait_for_selector and from a locator action whose
\* selector matches no element; its other failures are its Error.
WaitTimeoutError == "TimeoutError"
LocatorTimeoutError == "TimeoutError"
PlaywrightError == "Error"
ValueError == "ValueError"

\* An exception leaves the with-block: nothing after the raising statement
\* runs, and the context manager's exit is next.
Raise(e) ==
    /\ err' = e
    /\ pc' = "exit"

\* line 5: with sync_playwright() as p
EnterPlaywright ==
    /\ pc = "enter"
    /\ playwright' = "started"
    /\ pc' = "launch"
    /\ UNCHANGED <<page, browser, ready, shot, locals, reads, out, err, exitStatus>>

\* lines 6-7: p.chromium.launch(headless=True); browser.new_page()
Launch ==
    /\ pc = "launch"
    /\ browser' = "open"
    /\ pc' = "goto"
    /\ UNCHANGED <<page, playwright, ready, shot, locals, reads, out, err, exitStatus>>

\* lines 10-11: page.goto(file://cwd/index.html); the navigation raises
\* when the document cannot be loaded.
Goto ==
    /\ pc = "goto"
    /\ \E loaded \in BOOLEAN :
         IF loaded THEN pc' = "wait" /\ err' = err ELSE Raise(PlaywrightError)
    /\ UNCHANGED <<page, playwright, browser, ready, shot, locals, reads, out, exitStatus>>

\* A readiness step that goes on after a fixed delay whether or not a cell
\* has appeared.
WaitFixedSleep ==
    /\ pc = "wait"
    /\ ready' = (CellPositions # {})
    /\ pc' = "screenshot"
    /\ UNCHANGED <<page, playwright, browser, shot, locals, reads, out, err, exitStatus>>

\* line 15: page.wait_for_selector(".cell") returns once an element matches
\* and raises TimeoutError when none does within the timeout.
WaitForSelector ==
    /\ pc = "wait"
    /\ IF CellPositions # {}
       THEN ready' = TRUE /\ pc' = "screenshot" /\ err' = err
       ELSE ready' = ready /\ Raise(WaitTimeoutError)
    /\ UNCHANGED <<page, playwright, browser, shot, locals, reads, out, exitStatus>>

\* line 18: page.screenshot(path=...); a failed write raises.
Screenshot ==
    /\ pc = "screenshot"
    /\ \E written \in BOOLEAN :
         IF written
         THEN shot' = "written" /\ pc' = "read0" /\ err' = err
         ELSE shot' = "failed" /\ Raise(PlaywrightError)
    /\ UNCHANGED <<page, playwright, browser, ready, locals, reads, out, exitStatus>>

\* lines 26-27: cell_0_0.get_attribute("class"); the locator raises
\* TimeoutError when no element matches it.
ReadCell00 ==
    /\ pc = "read0"
    /\ LET sel == Selector(<<"0">>, <<"0">>)
           found == Locate(sel)
       IN  /\ reads' = Append(reads, sel)
           /\ IF found # {}
              THEN /\ class_0_0' = Bound(ClassOf(CHOOSE rc \in found : TRUE))
                   /\ pc' = "print0"
                   /\ err' = err
              ELSE /\ class_0_0' = class_0_0
                   /\ Raise(LocatorTimeoutError)
    /\ UNCHANGED <<page, playwright, browser, ready, shot, rows, cols, last_row,
                   last_col, class_last, out, exitStatus>>

\* line 28: print(f"Cell (0,0) class: {class_0_0}")
PrintCell00 ==
    /\ pc = "print0"
    /\ out' = Append(out, ClassLine(<<"0">>, <<"0">>, Val(class_0_0)))
    /\ pc' = "check0"
    /\ UNCHANGED <<page, playwright, browser, ready, shot, locals, reads, err, exitStatus>>

\* A first check that raises instead of reporting a failure.
CheckCell00Raising ==
    /\ pc = "check0"
    /\ IF CheckOutcome(Player1Base, Val(class_0_0)) = "SUCCESS"
       THEN /\ out' = Append(out, ResultLine("SUCCESS", "Cell (0,0)"))
            /\ pc' = "rows"
            /\ err' = err
       ELSE /\ out' = Append(out, ResultLine("FAILURE", "Cell (0,0)"))
            /\ Raise("AssertionError")
    /\ UNCHANGED <<page, playwright, browser, ready, shot, locals, reads, exitStatus>>

\* lines 30-33: if "player1-base" in class_0_0: print SUCCESS else FAILURE
CheckCell00 ==
    /\ pc = "check0"
    /\ out' = Append(out, ResultLine(CheckOutcome(Player1Base, Val(class_0_0)),
                                     "Cell (0,0)"))
    /\ pc' = "rows"
    /\ UNCHANGED <<page, playwright, browser, ready, shot, locals, reads, err, exitStatus>>

\* lines 36-37: rows = int(rows_input.input_value())
ReadRows ==
    /\ pc = "rows"
    /\ LET r == IntParse(page.rowsValue)
       IN  IF r.ok
           THEN rows' = Bound(r.val) /\ pc' = "cols" /\ err' = err
           ELSE rows' = rows /\ Raise(ValueError)
    /\ UNCHANGED <<page, playwright, browser, ready, shot, class_0_0, cols, last_row,
                   last_col, class_last, reads, out, exitStatus>>

\* A column count that falls back to the 10x10 default when the input does
\* not parse.
ReadColsDefault ==
    /\ pc = "cols"
    /\ LET r == IntParse(page.colsValue)
       IN  cols' = Bound(IF r.ok THEN r.val ELSE 10)
    /\ pc' = "last"
    /\ UNCHANGED <<page, playwright, browser, ready, shot, class_0_0, rows, last_row,
                   last_col, class_last, reads, out, err, exitStatus>>

\* lines 38-39: cols = int(cols_input.input_value())
ReadCols ==
    /\ pc = "cols"
    /\ LET r == IntParse(page.colsValue)
       IN  IF r.ok
           THEN cols' = Bound(r.val) /\ pc' = "last" /\ err' = err
           ELSE cols' = cols /\ Raise(ValueError)
    /\ UNCHANGED <<page, playwright, browser, ready, shot, class_0_0, rows, last_row,
                   last_col, class_last, reads, out, exitStatus>>

\* A last cell fixed at (9,9), the 10x10 default.
ComputeLastHardcoded ==
    /\ pc = "last"
    /\ last_row' = Bound(9)
    /\ last_col' = Bound(9)
    /\ pc' = "readLast"
    /\ UNCHANGED <<page, playwright, browser, ready, shot, class_0_0, rows, cols,
                   class_last, reads, out, err, exitStatus>>

\* lines 41-42: last_row = rows - 1; last_col = cols - 1
ComputeLast ==
    /\ pc = "last"
    /\ last_row' = Bound(Val(rows) - 1)
    /\ last_col' = Bound(Val(cols) - 1)
    /\ pc' = "readLast"
    /\ UNCHANGED <<page, playwright, browser, ready, shot, class_0_0, rows, cols,
                   class_last, reads, out, err, exitStatus>>

\* lines 44-45: cell_last.get_attribute("class") on the selector formatted
\* from last_row and last_col.
ReadCellLast ==
    /\ pc = "readLast"
    /\ LET sel == Selector(Str(Val(last_row)), Str(Val(last_col)))
           found == Locate(sel)
       IN  /\ reads' = Append(reads, sel)
           /\ IF found # {}
              THEN /\ class_last' = Bound(ClassOf(CHOOSE rc \in found : TRUE))
                   /\ pc' = "printLast"
                   /\ err' = err
              ELSE /\ class_last' = class_last
                   /\ Raise(LocatorTimeoutError)
    /\ UNCHANGED <<page, playwright, browser, ready, shot, class_0_0, rows, cols,
                   last_row, last_col, out, exitStatus>>

\* line 46: print(f"Cell ({last_row},{last_col}) class: {class_last}")
PrintCellLast ==
    /\ pc = "printLast"
    /\ out' = Append(out, ClassLine(Str(Val(last_row)), Str(Val(last_col)),
                                    Val(class_last)))
    /\ pc' = "checkLast"
    /\ UNCHANGED <<page, playwright, browser, ready, shot, locals, reads, err, exitStatus>>

\* A second check that reports only a success.
CheckCellLastSilent ==
    /\ pc = "checkLast"
    /\ out' = IF CheckOutcome(Player2Base, Val(class_last)) = "SUCCESS"
              THEN Append(out, ResultLine("SUCCESS", "Last cell"))
              ELSE out
    /\ pc' = "close"
    /\ UNCHANGED <<page, playwright, browser, ready, shot, locals, reads, err, exitStatus>>

\* lines 48-51: if "player2-base" in class_last: print SUCCESS else FAILURE
CheckCellLast ==
    /\ pc = "checkLast"
    /\ out' = Append(out, ResultLine(CheckOutcome(Player2Base, Val(class_last)),
                                     "Last cell"))
    /\ pc' = "close"
    /\ UNCHANGED <<page, playwright, browser, ready, shot, locals, reads, err, exitStatus>>

\* line 53: browser.close(), the last statement of the with-block
CloseBrowser ==
    /\ pc = "close"
    /\ browser' = "closed"
    /\ pc' = "exit"
    /\ UNCHANGED <<page, playwright, ready, shot, locals, reads, out, err, exitStatus>>

\* An exit status that reflects the checks.
ExitWithCheckStatus ==
    /\ pc = "exit"
    /\ playwright' = "stopped"
    /\ exitStatus' = Bound(IF err = "none"
                              /\ \A i \in 1..Len(out) : out[i].kind # "FAILURE"
                           THEN 0 ELSE 1)
    /\ pc' = "exited"
    /\ UNCHANGED <<page, browser, ready, shot, locals, reads, out, err>>

\* lines 5 and 55-56: the with-block is left (the sync_playwright() context
\* exits), run() returns or the exception propagates out of the script: the
\* status is 0 after a return and 1 after an uncaught exception.
ExitWith ==
    /\ pc = "exit"
    /\ playwright' = "stopped"
    /\ exitStatus' = Bound(IF err = "none" THEN 0 ELSE 1)
    /\ pc' = "exited"
    /\ UNCHANGED <<page, browser, ready, shot, locals, reads, out, err>>

Next ==
    \/ EnterPlaywright
    \/ Launch
    \/ Goto
    \/ WaitForSelector
    \/ Screenshot
    \/ ReadCell00
    \/ PrintCell00
    \/ CheckCell00
    \/ ReadRows
    \/ ReadCols
    \/ ComputeLast
    \/ ReadCellLast
    \/ PrintCellLast
    \/ CheckCellLast
    \/ CloseBrowser
    \/ ExitWith

Spec == Init /\ [][Next]_vars

---------------------------------------------------------------------------
\* Properties

Results == {"SUCCESS", "FAILURE"}

Ended == pc \in {"exit", "exited"}

\* The values the two count inputs show parse as integers.
ConfigParses == IntParse(page.rowsValue).ok /\ IntParse(page.colsValue).ok

\* The positions of the last cell as the inputs give it.
ShownLast ==
    Locate(Selector(Str(IntParse(page.rowsValue).val - 1),
                    Str(IntParse(page.colsValue).val - 1)))

\* Both checked cells are on the page and the configuration parses.
PageWellFormed ==
    /\ Locate(Selector(<<"0">>, <<"0">>)) # {}
    /\ ConfigParses
    /\ ShownLast # {}

\* The number of SUCCESS and FAILURE lines printed.
ResultCount == Cardinality({i \in 1..Len(out) : out[i].kind \in Results})

C2_ChecksRunAfterFailedScreenshot ==
    (pc = "exited" /\ shot = "failed" /\ PageWellFormed) => ResultCount = 2

\* C3: when no board cell ever appears the run ends at the readiness wait
\* with a timeout error and nothing after it is done: no screenshot, no cell
\* read, no configuration read, no line printed; and whatever is done after
\* the wait is done only once the readiness condition has held.
C3_NothingAfterRenderTimeout ==
    /\ (CellPositions = {}) =>
          /\ pc \in {"enter", "launch", "goto", "wait", "exit", "exited"}
          /\ shot = "none" /\ reads = <<>> /\ out = <<>>
          /\ rows = Unbound /\ cols = Unbound
          /\ (Ended => err \in {WaitTimeoutError, PlaywrightError})
    /\ (shot # "none" \/ reads # <<>> \/ out # <<>> \/ rows # Unbound) => ready

C3_Witness ==
    pc = "exited" /\ CellPositions = {} /\ err = WaitTimeoutError /\ out = <<>>

\* C4: a first check on a class list without "player1-base" prints the
\* FAILURE line for cell (0,0), raises nothing and hands over to the
\* configuration read; and the line the second check prints is decided by
\* the last cell's classes alone, whatever the first check printed.
C4_FailedFirstCheckGoesOn ==
    /\ [][(pc = "check0" /\ ~Contains(Val(class_0_0), Player1Base)) =>
            /\ out' = Append(out, ResultLine("FAILURE", "Cell (0,0)"))
            /\ err' = "none"
            /\ pc' = "rows"]_vars
    /\ [](Len(out) = 4 =>
            /\ ShownLast # {}
            /\ \A rc \in ShownLast :
                 out[4].kind = IF Contains(ClassOf(rc), Player2Base)
                               THEN "SUCCESS" ELSE "FAILURE")

C4_Witness ==
    /\ Len(out) = 4
    /\ out[2] = ResultLine("FAILURE", "Cell (0,0)")
    /\ out[4] = ResultLine("SUCCESS", "Last cell")
    /\ pc = "exited" /\ err = "none"

\* C5: when the inputs show rows = R and cols = C with R, C >= 1, the second
\* check locates, reads and reports cell (R-1, C-1) and no other.
C5_SecondCheckTargetsLastCell ==
    \A R \in { n \in 1..(MaxDim + 1) : page.rowsValue = Str(n) } :
       \A C \in { n \in 1..(MaxDim + 1) : page.colsValue = Str(n) } :
          /\ rows # Unbound => rows = Bound(R)
          /\ cols # Unbound => cols = Bound(C)
          /\ Len(reads) >= 2 => reads[2] = Selector(Str(R - 1), Str(C - 1))
          /\ Len(out) >= 3 =>
               out[3] = ClassLine(Str(R - 1), Str(C - 1), ClassOf(<<R - 1, C - 1>>))

C5_Witness ==
    /\ page.rowsValue = <<"1", "0">> /\ page.colsValue = <<"7">>
    /\ Len(out) >= 3
    /\ out[3].row = <<"9">> /\ out[3].col = <<"6">>

\* C6: a check prints SUCCESS exactly when the expected token is one of the
\* whitespace-separated tokens of the class list it read.
C6_PassIffTokenMember ==
    /\ Len(out) >= 2 => (out[2].kind = "SUCCESS" <=> Player1Base \in Tokens(Val(class_0_0)))
    /\ Len(out) >= 4 => (out[4].kind = "SUCCESS" <=> Player2Base \in Tokens(Val(class_last)))

\* C7: a cell read whose selector matches no element ends the run with an
\* error of its own: no FAILURE line is printed for the cell, and the error
\* is neither the one a readiness timeout raises nor the one an unusable
\* class value raises.
C7_CellNotFoundIsDistinct ==
    (Ended /\ reads # <<>> /\ Locate(reads[Len(reads)]) = {}) =>
       /\ err # "none"
       /\ ResultCount = Len(reads) - 1
       /\ err # WaitTimeoutError
       /\ err # "TypeError"

\* Every class line is followed at once by the result line of its own
\* check, and no result line stands without its class line.
Paired ==
    /\ \A i \in 1..Len(out) :
         /\ (i % 2 = 1) => out[i].kind = "class"
         /\ (i % 2 = 0) => /\ out[i].kind \in Results
                           /\ out[i].subject = IF i = 2 THEN "Cell (0,0)" ELSE "Last cell"
    /\ Len(out) <= 4
    /\ (Len(out) % 2 = 1) => pc = (IF Len(out) = 1 THEN "check0" ELSE "checkLast")

\* A run that ended without error printed the pair for (0,0) and then the
\* pair for (rows-1, cols-1).
TwoPairsAtEnd ==
    (Ended /\ err = "none") =>
       /\ Len(out) = 4
       /\ out[1].row = <<"0">> /\ out[1].col = <<"0">>
       /\ out[3].row = Str(Val(rows) - 1) /\ out[3].col = Str(Val(cols) - 1)

\* C8 as stated: the lines come in pairs, an error-free run prints exactly
\* two pairs, and no cell is read more than once.
C8_PairsAndNoCellReadTwice ==
    /\ Paired
    /\ TwoPairsAtEnd
    /\ \A i, j \in 1..Len(reads) : i # j => reads[i] # reads[j]

\* C8 amended: the lines come in pairs, an error-free run prints exactly two
\* pairs, and each check reads its cell once: there are at most two reads,
\* the first of (0,0) and the second of (rows-1, cols-1), and they are reads
\* of the same cell only on a 1x1 configuration.
C8_PairsAndOneReadPerCheck ==
    /\ Paired
    /\ TwoPairsAtEnd
    /\ Len(reads) <= 2
    /\ Len(reads) >= 1 => reads[1] = Selector(<<"0">>, <<"0">>)
    /\ Len(reads) = 2 =>
         /\ reads[2] = Selector(Str(Val(rows) - 1), Str(Val(cols) - 1))
         /\ (reads[2] = reads[1] => (rows = Bound(1) /\ cols = Bound(1)))
    /\ ResultCount <= Len(reads)

C8_Witness ==
    /\ pc = "exited" /\ err = "none"
    /\ Len(out) = 4
    /\ Len(reads) = 2 /\ reads[1] = reads[2]

\* C9: on a rendered and captured page whose two checked cells exist and
\* whose configuration parses, the run raises nothing and exits with
\* status 0, whichever of the two checks passed or failed.
C9_ExitStatusIgnoresChecks ==
    (ready /\ shot = "written" /\ PageWellFormed) =>
       /\ err = "none"
       /\ (pc = "exited" => (exitStatus = Bound(0) /\ ResultCount = 2))

C9_Witness ==
    /\ pc = "exited"
    /\ exitStatus = Bound(0)
    /\ Len(out) = 4
    /\ out[2].kind = "FAILURE" /\ out[4].kind = "FAILURE"

\* C10: when the value of the row-count or of the column-count input does
\* not parse as an integer, the run ends with an error at the configuration
\* read: the last cell is never located, read or reported and last_row and
\* last_col are never computed.
C10_MalformedConfigAborts ==
    ~ConfigParses =>
       /\ last_row = Unbound /\ last_col = Unbound /\ class_last = Unbound
       /\ Len(reads) <= 1
       /\ Len(out) <= 2
       /\ pc \notin {"last", "readLast", "printLast", "checkLast", "close"}
       /\ (Ended /\ Len(out) = 2) => err = ValueError
       /\ (~IntParse(page.rowsValue).ok) => (rows = Unbound /\ cols = Unbound)
       /\ cols = Unbound

C10_Witness ==
    /\ pc = "exited" /\ err = ValueError
    /\ rows # Unbound /\ cols = Unbound
    /\ Len(out) = 2 /\ last_row = Unbound

====
